---- MODULE Spec2Model ----
(***************************************************************************)
(* Model of the as-misc toolkit: the URL parser (WebURL.from), the query    *)
(* codec (WebURL.parseSearchParams), the route matcher (WebRoute.match),   *)
(* the string map (SMap), the response (WebResponse), the dispatcher       *)
(* (WebRouter.handle) and the byte stack (AnyStack with Serializer).       *)
(*                                                                         *)
(* A string is a sequence of characters; a character is a one-character    *)
(* TLA+ string, or "^n" for the character with code n when it has no       *)
(* printable ASCII form.  String indices are 0-based in the operators that *)
(* carry the names of the JavaScript string methods.                       *)
(***************************************************************************)
EXTENDS Integers, Sequences, FiniteSets, TLC

(***************************************************************************)
(* Bounds of the model.                                                    *)
(***************************************************************************)
\* The most segments of a pattern and of a request line.
MaxRouteSegs == 2
\* The most path segments of a URL built from PathSegs.
MaxPathSegs == 2
\* The longest path segment built character by character from PathChars.
MaxSegLen == 3
\* The most pieces of QueryPieces in a text given to WebURL.parseSearchParams.
MaxQueryPieces == 4
\* The most pairs in a list given to new SMap(pairs) and to bulk(pairs).
MaxPairs == 3
\* The most operations applied to one WebResponse.
MaxResponseOps == 3
\* The most routes registered in one WebRouter.
MaxRoutes == 2
\* The length of the AnyStack.
StackLength == 8
\* The most operations applied to one AnyStack.
MaxStackOps == 3

(***************************************************************************)
(* Characters.                                                             *)
(***************************************************************************)
\* The printable ASCII characters, in code order: Ascii[i] has code i + 31
\* (the double quote, the backslash and the backquote are written "^34",
\* "^92" and "^96").
Ascii ==
  << " ", "!", "^34", "#", "$", "%", "&", "'", "(", ")", "*", "+", ",", "-", ".", "/",
     "0", "1", "2", "3", "4", "5", "6", "7", "8", "9", ":", ";", "<", "=", ">", "?",
     "@", "A", "B", "C", "D", "E", "F", "G", "H", "I", "J", "K", "L", "M", "N", "O",
     "P", "Q", "R", "S", "T", "U", "V", "W", "X", "Y", "Z", "[", "^92", "]", "^", "_",
     "^96", "a", "b", "c", "d", "e", "f", "g", "h", "i", "j", "k", "l", "m", "n", "o",
     "p", "q", "r", "s", "t", "u", "v", "w", "x", "y", "z", "{", "|", "}", "~" >>

\* String.fromCharCode for one code unit.
fromCharCode(n) ==
  IF n >= 32 /\ n <= 126 THEN Ascii[n - 31] ELSE "^" \o ToString(n)

\* char.charCodeAt(0); the model's characters have codes below 256.
charCodeAt(c) ==
  IF \E i \in 1..Len(Ascii) : Ascii[i] = c
  THEN 31 + (CHOOSE i \in 1..Len(Ascii) : Ascii[i] = c)
  ELSE CHOOSE n \in (0..31) \cup (127..255) : fromCharCode(n) = c

\* char.toLowerCase() for one character.
toLowerCase(c) ==
  LET n == charCodeAt(c)
  IN  IF n >= 65 /\ n <= 90 THEN fromCharCode(n + 32) ELSE c

\* The white space String.trim() removes (the code units below 256).
WhiteSpace == { fromCharCode(n) : n \in {9, 10, 11, 12, 13, 32, 160} }

isWhiteSpace(c) == c \in WhiteSpace

(***************************************************************************)
(* The string methods the code calls.                                      *)
(***************************************************************************)
Min(a, b) == IF a <= b THEN a ELSE b

Clamp(n, len) == IF n < 0 THEN 0 ELSE IF n > len THEN len ELSE n

\* s.substring(start, end): both ends clamped to the string, swapped when
\* start > end.
substring(s, start, end) ==
  LET a  == Clamp(start, Len(s))
      b  == Clamp(end, Len(s))
      lo == Min(a, b)
      hi == IF a <= b THEN b ELSE a
  IN  SubSeq(s, lo + 1, hi)

\* s.startsWith(t), s.endsWith(t)
startsWith(s, t) == Len(t) <= Len(s) /\ SubSeq(s, 1, Len(t)) = t
endsWith(s, t) == Len(t) <= Len(s) /\ SubSeq(s, Len(s) - Len(t) + 1, Len(s)) = t

\* s.indexOf(t): the 0-based index of the first occurrence of t, or -1.
indexOf(s, t) ==
  LET hits == { i \in 0..(Len(s) - Len(t)) : SubSeq(s, i + 1, i + Len(t)) = t }
  IN  IF hits = {} THEN -1 ELSE CHOOSE i \in hits : \A j \in hits : i <= j

\* split as it would be if the empty string gave no element at all.
RECURSIVE split_noEmpty(_, _)
split_noEmpty(s, sep) ==
  LET i == indexOf(s, sep)
  IN  IF s = << >> THEN << >>
      ELSE IF i < 0 THEN << s >>
      ELSE << SubSeq(s, 1, i) >> \o split_noEmpty(SubSeq(s, i + Len(sep) + 1, Len(s)), sep)

\* s.split(sep) for a non-empty separator: always at least one element.
RECURSIVE split(_, _)
split(s, sep) ==
  LET i == indexOf(s, sep)
  IN  IF i < 0 THEN << s >>
      ELSE << SubSeq(s, 1, i) >> \o split(SubSeq(s, i + Len(sep) + 1, Len(s)), sep)

\* s.trim()
RECURSIVE trimStart(_)
trimStart(s) ==
  IF s # << >> /\ isWhiteSpace(Head(s)) THEN trimStart(Tail(s)) ELSE s

RECURSIVE trimEnd(_)
trimEnd(s) ==
  IF s # << >> /\ isWhiteSpace(s[Len(s)]) THEN trimEnd(SubSeq(s, 1, Len(s) - 1)) ELSE s

trim(s) == trimEnd(trimStart(s))

\* Concatenation of a sequence of strings.
RECURSIVE Concat(_)
Concat(ss) == IF ss = << >> THEN << >> ELSE Head(ss) \o Concat(Tail(ss))

(***************************************************************************)
(* SMap: Map<string, string>, a list of <<key, value>> pairs with distinct *)
(* keys in insertion order.                                                *)
(***************************************************************************)
SMap_new == << >>

SMap_has(m, key) == \E i \in 1..Len(m) : m[i][1] = key

\* Map.set: the value of an existing key is replaced in place, a new key is
\* appended.
SMap_set(m, key, value) ==
  IF SMap_has(m, key)
  THEN [ i \in 1..Len(m) |-> IF m[i][1] = key THEN << key, value >> ELSE m[i] ]
  ELSE Append(m, << key, value >>)

\* SMap._get: "" for a missing key.
SMap_get(m, key) ==
  IF SMap_has(m, key) THEN m[CHOOSE i \in 1..Len(m) : m[i][1] = key][2] ELSE << >>

SMap_size(m) == Len(m)

\* SMap.keyOf and SMap.valueOf: the first and the second string of a pair,
\* "" when the pair is too short.
SMap_keyOf(pair) == IF Len(pair) > 0 THEN pair[1] ELSE << >>

SMap_valueOf(pair) == IF Len(pair) > 1 THEN pair[2] ELSE << >>

\* SMap.bulk(pairs) from index i on: the loop steps by two.
RECURSIVE SMap_bulk(_, _, _)
SMap_bulk(m, pairs, i) ==
  IF i >= Len(pairs) THEN m
  ELSE SMap_bulk(SMap_set(m, SMap_keyOf(pairs[i + 1]), SMap_valueOf(pairs[i + 1])),
                 pairs, i + 2)

\* new SMap(pairs)
SMap_construct(pairs) == SMap_bulk(SMap_new, pairs, 0)

(***************************************************************************)
(* WebURL.parseSearchParams                                                *)
(***************************************************************************)
\* parseSearchParamsLoop as it would be if a leading "?" were stripped from
\* every token.
RECURSIVE parseSearchParamsLoop_anyToken(_, _, _)
parseSearchParamsLoop_anyToken(params, i, result) ==
  IF i >= Len(params) THEN result
  ELSE
    LET param     == params[i + 1]
        separator == indexOf(param, << "=" >>)
        key   == substring(param,
                           IF startsWith(param, << "?" >>) THEN 1 ELSE 0,
                           IF separator >= 0 THEN separator ELSE Len(param))
        value == IF separator >= 0
                   THEN substring(param, separator + 1, Len(param))
                   ELSE << >>
    IN  parseSearchParamsLoop_anyToken(params, i + 1,
          SMap_set(result, IF Len(key) > 0 THEN key ELSE << >>, value))

\* The loop over the tokens of the query from token i on.
RECURSIVE parseSearchParamsLoop(_, _, _)
parseSearchParamsLoop(params, i, result) ==
  IF i >= Len(params) THEN result
  ELSE
    LET param     == params[i + 1]
        separator == indexOf(param, << "=" >>)
        key   == substring(param,
                           IF i = 0 /\ startsWith(param, << "?" >>) THEN 1 ELSE 0,
                           IF separator >= 0 THEN separator ELSE Len(param))
        value == IF separator >= 0
                   THEN substring(param, separator + 1, Len(param))
                   ELSE << >>
    IN  parseSearchParamsLoop(params, i + 1,
          SMap_set(result, IF Len(key) > 0 THEN key ELSE << >>, value))

WebURL_parseSearchParams(value) ==
  parseSearchParamsLoop(split(value, << "&" >>), 0, SMap_new)

(***************************************************************************)
(* decodeURIComponent (ECMAScript Decode with an empty reserved set): the  *)
(* result is [ok |-> TRUE, value |-> the decoded string], or ok = FALSE    *)
(* where the function throws URIError.                                     *)
(***************************************************************************)
HexDigits ==
  << "0", "1", "2", "3", "4", "5", "6", "7", "8", "9", "a", "b", "c", "d", "e", "f",
     "A", "B", "C", "D", "E", "F" >>

\* The value of a hexadecimal digit of either case, -1 for any other character.
hexValue(c) ==
  IF \E i \in 1..22 : HexDigits[i] = c
  THEN LET d == CHOOSE i \in 1..22 : HexDigits[i] = c
       IN  IF d > 16 THEN d - 7 ELSE d - 1
  ELSE -1

\* The byte of the escape "%XY" that starts at 0-based index k of s, -1 when
\* s has no well-formed escape there.
escapeAt(s, k) ==
  IF k + 2 >= Len(s) \/ s[k + 1] # "%" THEN -1
  ELSE IF hexValue(s[k + 2]) < 0 \/ hexValue(s[k + 3]) < 0 THEN -1
  ELSE 16 * hexValue(s[k + 2]) + hexValue(s[k + 3])

\* The number of bytes of the UTF-8 sequence that the byte b leads, 0 when b
\* leads none.
utf8Length(b) ==
  IF b >= 192 /\ b <= 223 THEN 2
  ELSE IF b >= 224 /\ b <= 239 THEN 3
  ELSE IF b >= 240 /\ b <= 247 THEN 4
  ELSE 0

\* The continuation bytes j..n-1 of the sequence whose lead escape is at k:
\* the code point accumulated in acc, -1 when one of them is malformed.
RECURSIVE utf8Continue(_, _, _, _, _)
utf8Continue(s, k, j, n, acc) ==
  IF j >= n THEN acc
  ELSE LET b == escapeAt(s, k + 3 * j)
       IN  IF b < 128 \/ b > 191 THEN -1
           ELSE utf8Continue(s, k, j + 1, n, acc * 64 + (b - 128))

\* The UTF-16 code units of a code point.
utf16(cp) ==
  IF cp < 65536 THEN << fromCharCode(cp) >>
  ELSE << fromCharCode(55296 + ((cp - 65536) \div 1024)),
          fromCharCode(56320 + ((cp - 65536) % 1024)) >>

RECURSIVE decodeFrom(_, _, _)
decodeFrom(s, k, out) ==
  IF k >= Len(s) THEN [ok |-> TRUE, value |-> out]
  ELSE IF s[k + 1] # "%" THEN decodeFrom(s, k + 1, Append(out, s[k + 1]))
  ELSE
    LET b == escapeAt(s, k)
    IN  IF b < 0 THEN [ok |-> FALSE, value |-> << >>]
        ELSE IF b < 128 THEN decodeFrom(s, k + 3, Append(out, fromCharCode(b)))
        ELSE
          LET n   == utf8Length(b)
              lead == IF n = 2 THEN b - 192 ELSE IF n = 3 THEN b - 224 ELSE b - 240
              cp  == IF n = 0 THEN -1 ELSE utf8Continue(s, k, 1, n, lead)
              min == IF n = 2 THEN 128 ELSE IF n = 3 THEN 2048 ELSE 65536
          IN  IF cp < min \/ cp > 1114111 \/ (cp >= 55296 /\ cp <= 57343)
              THEN [ok |-> FALSE, value |-> << >>]
              ELSE decodeFrom(s, k + 3 * n, out \o utf16(cp))

decodeURIComponent(s) == decodeFrom(s, 0, << >>)

(***************************************************************************)
(* WebRoute.match                                                          *)
(***************************************************************************)
\* pipesEqual as it would be without the trim of each alternative.
RECURSIVE pipesEqual_noTrim(_, _, _, _)
pipesEqual_noTrim(pipes, matchMap, i, equals) ==
  IF i >= Len(pipes) THEN equals
  ELSE LET pipe == pipes[i + 1]
           eq   == (pipe = matchMap)
       IN  IF eq THEN TRUE ELSE pipesEqual_noTrim(pipes, matchMap, i + 1, eq)

\* The comparison of one segment with the alternatives of a "|" segment
\* (the inner loop): TRUE when some trimmed alternative equals matchMap.
RECURSIVE pipesEqual(_, _, _, _)
pipesEqual(pipes, matchMap, i, equals) ==
  IF i >= Len(pipes) THEN equals
  ELSE LET pipe == trim(pipes[i + 1])
           eq   == (pipe = matchMap)
       IN  IF eq THEN TRUE ELSE pipesEqual(pipes, matchMap, i + 1, eq)

\* captureKey as it would be if every name were used as the key.
captureKey_anyName(selfMap) == substring(selfMap, 1, Len(selfMap))

\* The key under which a ":name" segment stores its capture.
captureKey(selfMap) ==
  LET key == substring(selfMap, 1, Len(selfMap))
  IN  IF Len(key) > 1 THEN key ELSE << "_" >>

\* segmentOutcome as it would be if "*" were compared like a literal.
segmentOutcome_noWildcard(selfMap, matchMap) ==
  IF startsWith(selfMap, << ":" >>)
  THEN IF decodeURIComponent(matchMap).ok THEN "capture" ELSE "throw"
  ELSE IF indexOf(selfMap, << "|" >>) >= 0
  THEN IF pipesEqual(split(selfMap, << "|" >>), matchMap, 0, TRUE)
       THEN "continue" ELSE "fail"
  ELSE IF selfMap = matchMap THEN "continue"
  ELSE "fail"

\* What the loop body does at one position, for the trimmed pattern segment
\* selfMap and the trimmed request segment matchMap:
\*   "capture"  a named parameter is stored, the loop goes on
\*   "throw"    decodeURIComponent raises URIError
\*   "continue" the position matches, the loop goes on
\*   "wildcard" isValid = true; break
\*   "fail"     isValid = false; break
segmentOutcome(selfMap, matchMap) ==
  IF startsWith(selfMap, << ":" >>)
  THEN IF decodeURIComponent(matchMap).ok THEN "capture" ELSE "throw"
  ELSE IF indexOf(selfMap, << "|" >>) >= 0
  THEN IF pipesEqual(split(selfMap, << "|" >>), matchMap, 0, TRUE)
       THEN "continue" ELSE "fail"
  ELSE IF selfMap = << "*" >> THEN "wildcard"
  ELSE IF selfMap = matchMap THEN "continue"
  ELSE "fail"

\* matchLoop as it would be if a failed position discarded the captures.
RECURSIVE matchLoop_dropOnFail(_, _, _, _, _)
matchLoop_dropOnFail(selfRoutes, matchRoutes, mapSize, i, params) ==
  IF i >= mapSize THEN [threw |-> FALSE, isValid |-> TRUE, params |-> params]
  ELSE IF i >= Len(selfRoutes) \/ i >= Len(matchRoutes)
  THEN [threw |-> TRUE, isValid |-> FALSE, params |-> params]
  ELSE
    LET selfMap  == trim(selfRoutes[i + 1])
        matchMap == trim(matchRoutes[i + 1])
        outcome  == segmentOutcome(selfMap, matchMap)
    IN  CASE outcome = "capture" ->
               matchLoop_dropOnFail(selfRoutes, matchRoutes, mapSize, i + 1,
                 SMap_set(params, captureKey(selfMap),
                          decodeURIComponent(matchMap).value))
          [] outcome = "throw" ->
               [threw |-> TRUE, isValid |-> FALSE, params |-> params]
          [] outcome = "continue" ->
               matchLoop_dropOnFail(selfRoutes, matchRoutes, mapSize, i + 1, params)
          [] outcome = "wildcard" ->
               [threw |-> FALSE, isValid |-> TRUE, params |-> params]
          [] outcome = "fail" ->
               [threw |-> FALSE, isValid |-> FALSE, params |-> SMap_new]

\* The segment loop from position i on, with the captures made so far.
\* threw is TRUE when the loop ends in an uncaught error: URIError from
\* decodeURIComponent, or an array index out of range.
RECURSIVE matchLoop(_, _, _, _, _)
matchLoop(selfRoutes, matchRoutes, mapSize, i, params) ==
  IF i >= mapSize THEN [threw |-> FALSE, isValid |-> TRUE, params |-> params]
  ELSE IF i >= Len(selfRoutes) \/ i >= Len(matchRoutes)
  THEN [threw |-> TRUE, isValid |-> FALSE, params |-> params]
  ELSE
    LET selfMap  == trim(selfRoutes[i + 1])
        matchMap == trim(matchRoutes[i + 1])
        outcome  == segmentOutcome(selfMap, matchMap)
    IN  CASE outcome = "capture" ->
               matchLoop(selfRoutes, matchRoutes, mapSize, i + 1,
                 SMap_set(params, captureKey(selfMap),
                          decodeURIComponent(matchMap).value))
          [] outcome = "throw" ->
               [threw |-> TRUE, isValid |-> FALSE, params |-> params]
          [] outcome = "continue" ->
               matchLoop(selfRoutes, matchRoutes, mapSize, i + 1, params)
          [] outcome = "wildcard" ->
               [threw |-> FALSE, isValid |-> TRUE, params |-> params]
          [] outcome = "fail" ->
               [threw |-> FALSE, isValid |-> FALSE, params |-> params]

\* The part of the request line that is split into segments: cut at the
\* smaller of the indices of "?" and "#" in the pattern.
rpathOf(reference, path) ==
  LET qindex == indexOf(reference, << "?" >>)
      hindex == indexOf(reference, << "#" >>)
      rindex == Min(qindex, hindex)
  IN  substring(path, 0, IF rindex >= 0 THEN rindex ELSE Len(path))

\* The text given to the query codec, and the hash of the result.
searchParamStringOf(reference, path) ==
  LET qindex == indexOf(reference, << "?" >>)
  IN  IF qindex >= 0 THEN substring(path, qindex + 1, Len(path)) ELSE << >>

hashStringOf(reference, path) ==
  LET hindex == indexOf(reference, << "#" >>)
  IN  IF hindex >= 0 THEN substring(path, hindex + 1, Len(path)) ELSE << >>

\* The segments of the pattern and of the request line.
selfRoutesOf(reference) == split(reference, << "/" >>)

matchRoutesOf(reference, path) == split(rpathOf(reference, path), << "/" >>)

\* mapSizeOf as it would be with the larger of the two lengths.
mapSizeOf_max(selfRoutes, matchRoutes) ==
  IF Len(selfRoutes) >= Len(matchRoutes) THEN Len(selfRoutes) ELSE Len(matchRoutes)

\* The number of positions the loop visits.
mapSizeOf(selfRoutes, matchRoutes) == Min(Len(selfRoutes), Len(matchRoutes))

\* WebRoute.match(reference, path): the WebRoute it returns, with threw =
\* FALSE, or threw = TRUE when the call ends in an uncaught error.
WebRoute_match(reference, path) ==
  LET selfRoutes  == selfRoutesOf(reference)
      matchRoutes == matchRoutesOf(reference, path)
      mapSize     == mapSizeOf(selfRoutes, matchRoutes)
      loop        == matchLoop(selfRoutes, matchRoutes, mapSize, 0, SMap_new)
  IN  IF loop.threw
      THEN [threw |-> TRUE, isValid |-> FALSE, params |-> SMap_new,
            searchParams |-> SMap_new, hash |-> << >>]
      ELSE [threw |-> FALSE, isValid |-> loop.isValid, params |-> loop.params,
            searchParams |->
              WebURL_parseSearchParams(searchParamStringOf(reference, path)),
            hash |-> hashStringOf(reference, path)]

(***************************************************************************)
(* WebURL.from                                                             *)
(***************************************************************************)
\* i.toString() for i >= 0
RECURSIVE toString10(_)
toString10(i) ==
  IF i < 10 THEN << fromCharCode(48 + i) >>
  ELSE Append(toString10(i \div 10), fromCharCode(48 + (i % 10)))

\* toString16 as it would be if the code were written in decimal.
toString16_decimal(code) == toString10(code)

\* code.toString(16).padStart(2, "0") for code >= 0
RECURSIVE toString16(_)
toString16(code) ==
  IF code < 16 THEN << HexDigits[code + 1] >>
  ELSE Append(toString16(code \div 16), HexDigits[(code % 16) + 1])

padStart2(s) == IF Len(s) < 2 THEN << "0" >> \o s ELSE s

\* new WebURL(...): the constructor derives hostname from host and port.
WebURL_new(protocol, username, password, href, origin, host, port, pathname, search, searchParams, hash, isValid) ==
  [aborted |-> FALSE, protocol |-> protocol, username |-> username,
   password |-> password, href |-> href, origin |-> origin, host |-> host,
   port |-> port, hostname |-> host \o << ":" >> \o toString10(port),
   pathname |-> pathname, search |-> search, searchParams |-> searchParams,
   hash |-> hash, isValid |-> isValid]

\* new WebURL() as it would be if the port defaulted to 80.
WebURL_default_port80 ==
  WebURL_new(<< >>, << >>, << >>, << >>, << >>, << >>, 80, << >>, << >>,
             SMap_new, << >>, FALSE)

\* new WebURL(): every parameter at its default.
WebURL_default ==
  WebURL_new(<< >>, << >>, << >>, << >>, << >>, << >>, 0, << >>, << >>,
             SMap_new, << >>, FALSE)

\* The call ends in an uncaught error (an array index out of range).
WebURL_abort == [WebURL_default EXCEPT !.aborted = TRUE]

tcpCharset ==
  << "0", "1", "2", "3", "4", "5", "6", "7", "8", "9", "a", "b", "c", "d", "e", "f",
     "g", "h", "i", "j", "k", "l", "m", "n", "o", "p", "q", "r", "s", "t", "u", "v",
     "w", "x", "y", "z", "-", "_", ".", "~" >>

portStringNumbers == << "0", "1", "2", "3", "4", "5", "6", "7", "8", "9" >>

\* The largest i32.
I32Max == 2147483647

\* The check of the port's characters: TRUE when each is a decimal digit.
portStringIsNumeric(portString) ==
  \A i \in 1..Len(portString) : indexOf(portStringNumbers, << portString[i] >>) >= 0

\* parseInt(portString) as i32, for a string of decimal digits: the value
\* of the digits, I32Max when the value is larger (the conversion of the
\* float to i32 saturates), -1 for NaN (no digit at all).
RECURSIVE parseIntAsI32(_)
parseIntAsI32(digits) ==
  IF digits = << >> THEN -1
  ELSE LET d == charCodeAt(digits[Len(digits)]) - 48
       IN  IF Len(digits) = 1 THEN d
           ELSE LET high == parseIntAsI32(SubSeq(digits, 1, Len(digits) - 1))
                IN  IF high > (I32Max - d) \div 10 THEN I32Max ELSE 10 * high + d

\* The scan of one path segment from character j on.  status is "ok" with
\* the re-encoded segment, "invalid" where the scan returns new WebURL(),
\* "abort" where it stores outside percentCode.
RECURSIVE formatPath(_, _, _, _, _, _)
formatPath(path, j, formattedPath, foundPercentCode, percentCodeCursor, percentCode) ==
  IF j >= Len(path) THEN [status |-> "ok", formattedPath |-> formattedPath]
  ELSE
    LET char        == path[j + 1]
        code        == charCodeAt(char)
        indexOfChar == indexOf(tcpCharset, << toLowerCase(char) >>)
    IN  IF foundPercentCode
        THEN IF percentCodeCursor < 2
             THEN IF indexOfChar < 0 \/ indexOfChar > 15
                  THEN [status |-> "invalid", formattedPath |-> << >>]
                  ELSE IF percentCodeCursor + 1 \notin DOMAIN percentCode
                  THEN [status |-> "abort", formattedPath |-> << >>]
                  ELSE formatPath(path, j + 1, formattedPath, TRUE,
                         percentCodeCursor + 1,
                         [percentCode EXCEPT ![percentCodeCursor + 1] = indexOfChar])
             ELSE IF percentCode[1] > 127
                  THEN [status |-> "invalid", formattedPath |-> << >>]
                  ELSE formatPath(path, j + 1, formattedPath, TRUE,
                         percentCodeCursor, percentCode)
        ELSE IF indexOfChar >= 0
        THEN formatPath(path, j + 1, Append(formattedPath, char), FALSE,
               percentCodeCursor, percentCode)
        ELSE IF char = "%"
        THEN formatPath(path, j + 1, formattedPath, TRUE, 0, percentCode)
        ELSE IF code <= 127
        THEN formatPath(path, j + 1,
               formattedPath \o << "%" >> \o padStart2(toString16(code)), FALSE,
               percentCodeCursor, percentCode)
        ELSE [status |-> "invalid", formattedPath |-> << >>]

\* formatPaths as it would be if the segments were joined without "/".
RECURSIVE formatPaths_noSlash(_, _, _)
formatPaths_noSlash(paths, i, pathname) ==
  IF i >= Len(paths) THEN [status |-> "ok", pathname |-> pathname]
  ELSE LET seg == formatPath(paths[i + 1], 0, << >>, FALSE, 0, << 0, 0 >>)
       IN  IF seg.status # "ok" THEN [status |-> seg.status, pathname |-> << >>]
           ELSE formatPaths_noSlash(paths, i + 1, pathname \o seg.formattedPath)

\* The loop over paths[1..]: the pathname built so far is in pathname.
RECURSIVE formatPaths(_, _, _)
formatPaths(paths, i, pathname) ==
  IF i >= Len(paths) THEN [status |-> "ok", pathname |-> pathname]
  ELSE LET seg == formatPath(paths[i + 1], 0, << >>, FALSE, 0, << 0, 0 >>)
       IN  IF seg.status # "ok" THEN [status |-> seg.status, pathname |-> << >>]
           ELSE formatPaths(paths, i + 1, pathname \o << "/" >> \o seg.formattedPath)

\* The text of the search parameters: "?k=v&k=v" for a map that is not empty.
RECURSIVE searchPairs(_, _)
searchPairs(pairs, i) ==
  IF i >= Len(pairs) THEN << >>
  ELSE (IF i = 0 THEN << >> ELSE << "&" >>)
         \o pairs[i + 1][1] \o << "=" >> \o pairs[i + 1][2]
         \o searchPairs(pairs, i + 1)

\* searchOf as it would be without the leading "?".
searchOf_noQuestion(searchParams) ==
  IF SMap_size(searchParams) > 0 THEN searchPairs(searchParams, 0) ELSE << >>

searchOf(searchParams) ==
  IF SMap_size(searchParams) > 0 THEN << "?" >> \o searchPairs(searchParams, 0)
  ELSE << >>

\* The credentials and the origin taken from the first element of paths.
credentialsOf(protocol, firstPath) ==
  LET credentialsSeparator == indexOf(firstPath, << "@" >>)
      credentials       == substring(firstPath, 0, credentialsSeparator)
      usernameSeparator == indexOf(credentials, << ":" >>)
  IN  IF credentialsSeparator >= 0
      THEN [username |-> IF usernameSeparator >= 0
                           THEN substring(credentials, 0, usernameSeparator)
                           ELSE credentials,
            password |-> IF usernameSeparator >= 0
                           THEN substring(credentials, usernameSeparator + 1,
                                          Len(credentials))
                           ELSE << >>,
            origin   |-> protocol \o << "/", "/" >>
                           \o substring(firstPath, credentialsSeparator + 1,
                                         Len(firstPath))]
      ELSE [username |-> << >>, password |-> << >>,
            origin   |-> protocol \o << "/", "/" >> \o firstPath]

\* Host and port from the text of the origin after "//".  status is
\* "invalid" where the code returns new WebURL().
hostPortOf(hostText) ==
  LET indexOfPort == indexOf(hostText, << ":" >>)
      portString  == substring(hostText, indexOfPort + 1, Len(hostText))
      host        == substring(hostText, 0, indexOfPort)
      ipv6String  == substring(host, 1, Len(host) - 1)
      ipv6StringParts == split(ipv6String, << ":" >>)
      parsedPort  == parseIntAsI32(portString)
      invalid     == [status |-> "invalid", host |-> << >>, port |-> 0]
  IN  IF indexOfPort < 0 THEN [status |-> "ok", host |-> hostText, port |-> 80]
      ELSE IF ~portStringIsNumeric(portString) THEN invalid
      ELSE IF startsWith(host, << "[" >>)
      THEN IF ~endsWith(host, << "]" >>) THEN invalid
           ELSE IF Len(ipv6StringParts) < 2 \/ Len(ipv6StringParts) > 8 THEN invalid
           ELSE invalid
      ELSE IF parsedPort < 0 THEN invalid
      ELSE [status |-> "ok", host |-> host, port |-> parsedPort]

WebURL_from(raw) ==
  LET protocolSeparator == indexOf(raw, << "/", "/" >>)
      protocol  == substring(raw, 0, protocolSeparator)
      url0      == substring(raw, Len(protocol) + 2, Len(raw))
      hashSeparator == indexOf(url0, << "#" >>)
      hash      == IF hashSeparator >= 0
                     THEN substring(url0, hashSeparator + 1, Len(url0))
                     ELSE << >>
      url1      == IF hashSeparator >= 0 THEN substring(url0, 0, hashSeparator)
                     ELSE url0
      querySeparator == indexOf(url1, << "?" >>)
      searchParams ==
        IF querySeparator >= 0
        THEN WebURL_parseSearchParams(substring(url1, querySeparator + 1, Len(url1)))
        ELSE SMap_new
      url       == IF querySeparator >= 0 THEN substring(url1, 0, querySeparator)
                     ELSE url1
      paths     == split(url, << "/" >>)
  IN  IF protocolSeparator < 0 THEN WebURL_default
      ELSE IF startsWith(url0, << "%" >>) THEN WebURL_default
      ELSE IF Len(paths) = 0 THEN WebURL_abort
      ELSE
        LET cred     == credentialsOf(protocol, paths[1])
            origin   == cred.origin
            hostPort == hostPortOf(substring(origin, protocolSeparator + 2, Len(origin)))
            formatted == formatPaths(paths, 1, << >>)
            search   == searchOf(searchParams)
            href     == origin \o formatted.pathname \o search
                          \o (IF hashSeparator >= 0 THEN << "#" >> \o hash ELSE << >>)
        IN  IF hostPort.status = "invalid" THEN WebURL_default
            ELSE IF formatted.status = "invalid" THEN WebURL_default
            ELSE IF formatted.status = "abort" THEN WebURL_abort
            ELSE WebURL_new(protocol, cred.username, cred.password, href, origin,
                            hostPort.host, hostPort.port, formatted.pathname,
                            search, searchParams, hash, TRUE)

(***************************************************************************)
(* WebResponse                                                             *)
(***************************************************************************)
\* A body: null, or the bytes of an ArrayBuffer.
NullBody == [isNull |-> TRUE, bytes |-> << >>]

\* String.UTF16.encode(content): two bytes for each code unit, the low one
\* first.
UTF16_encode(content) ==
  [isNull |-> FALSE,
   bytes  |-> [ k \in 1..(2 * Len(content)) |->
                  IF k % 2 = 1 THEN charCodeAt(content[(k + 1) \div 2]) % 256
                  ELSE charCodeAt(content[k \div 2]) \div 256 ]]

\* new WebResponse()
WebResponse_new ==
  [isLocked |-> FALSE, status |-> 0, url |-> << >>, headers |-> SMap_new,
   body |-> NullBody, redirected |-> FALSE, isValid |-> TRUE]

WebResponse_lock(res) == [res EXCEPT !.isLocked = TRUE]

WebResponse_unlock(res) == [res EXCEPT !.isLocked = FALSE]

\* The setters: each writes its field unless the response is locked.
WebResponse_set_url(res, value) ==
  IF ~res.isLocked THEN [res EXCEPT !.url = value] ELSE res

WebResponse_set_status(res, value) ==
  IF ~res.isLocked THEN [res EXCEPT !.status = value] ELSE res

WebResponse_set_headers(res, value) ==
  IF ~res.isLocked THEN [res EXCEPT !.headers = value] ELSE res

WebResponse_set_body(res, value) ==
  IF ~res.isLocked THEN [res EXCEPT !.body = value] ELSE res

WebResponse_set_redirect(res, value) ==
  IF ~res.isLocked THEN [res EXCEPT !.redirected = value] ELSE res

WebResponse_set_isValid(res, value) ==
  IF ~res.isLocked THEN [res EXCEPT !.isValid = value] ELSE res

\* setHeaders(headers): this.headers.bulk(headers)
WebResponse_setHeaders(res, headers) ==
  [res EXCEPT !.headers = SMap_bulk(res.headers, headers, 0)]

\* setStatus(status): this.status = status
WebResponse_setStatus(res, status) == WebResponse_set_status(res, status)

\* write(content): this.body = String.UTF16.encode(content)
WebResponse_write(res, content) == WebResponse_set_body(res, UTF16_encode(content))

(***************************************************************************)
(* WebRouter.handle                                                        *)
(***************************************************************************)
\* The request line: method.trim() + " " + url.trim()
requestLineOf(req) == trim(req.method) \o << " " >> \o trim(req.url)

\* What the loop sees of one call of WebRoute.match: "throw" when the call
\* ends in an uncaught error, else "valid" or "invalid" after route.isValid.
routeOutcome(found) ==
  IF found.threw THEN "throw" ELSE IF found.isValid THEN "valid" ELSE "invalid"

\* The loop over the keys from index i on.  outcome is "handler" with the
\* handler of the first key whose match is valid, "none" when no key
\* matches, "throw" when WebRoute.match ends in an uncaught error.
RECURSIVE handleLoop(_, _, _)
\* The body of the loop for the key at index i, whose match gave found.
handleKey(routes, i, line, found) ==
  IF found = "throw" THEN [outcome |-> "throw", handler |-> "none"]
  ELSE IF found = "valid"
  THEN [outcome |-> "handler", handler |-> routes[i + 1][2]]
  ELSE handleLoop(routes, i + 1, line)

handleLoop(routes, i, line) ==
  IF i >= Len(routes) THEN [outcome |-> "none", handler |-> "none"]
  ELSE handleKey(routes, i, line,
                 routeOutcome(WebRoute_match(routes[i + 1][1], line)))

\* The header and the text the built-in handler writes.
NotFoundHeaderKey ==
  << "c", "o", "n", "t", "e", "n", "t", "-", "t", "y", "p", "e" >>

NotFoundHeaderValue ==
  << "a", "p", "p", "l", "i", "c", "a", "t", "i", "o", "n", "/", "j", "s",
     "o", "n", ";", " ", "c", "h", "a", "r", "s", "e", "t", "=", "u", "t",
     "f", "-", "8" >>

NotFoundBody ==
  << "{", "^34", "h", "t", "t", "p", "^34", ":", "4", "0", "4", ",", "^34",
     "s", "t", "a", "t", "u", "s", "^34", ":", "^34", "e", "r", "r", "o",
     "r", "^34", ",", "^34", "m", "e", "s", "s", "a", "g", "e", "^34", ":",
     "^34", "4", "0", "4", " ", "N", "o", "t", " ", "F", "o", "u", "n",
     "d", ".", "^34", "}" >>

\* The built-in handler: status 404, one header, a body, and the lock.
builtinNotFound(res) ==
  WebResponse_lock(
    WebResponse_write(
      WebResponse_setHeaders(
        WebResponse_setStatus(res, 404),
        << << NotFoundHeaderKey, NotFoundHeaderValue >> >>),
      NotFoundBody))

\* What handle does once the loop has ended with the result loop.
handleAfterLoop(loop, notFound, res) ==
  IF loop.outcome = "throw"
  THEN [threw |-> TRUE, invoked |-> << >>, res |-> res]
  ELSE IF loop.outcome = "handler"
  THEN [threw |-> FALSE, invoked |-> << loop.handler >>, res |-> res]
  ELSE IF notFound # "null"
  THEN [threw |-> FALSE, invoked |-> << notFound >>, res |-> res]
  ELSE [threw |-> FALSE, invoked |-> << "builtin" >>, res |-> builtinNotFound(res)]

\* WebRouter.handle(ctx, req, res): the handlers it invoked, in order, the
\* response afterwards, and threw = TRUE when the call ends in an uncaught
\* error.  A registered handler and the notFound handler are the caller's
\* functions: the model records that they ran.
WebRouter_handle(routes, notFound, req, res) ==
  handleAfterLoop(handleLoop(routes, 0, requestLineOf(req)), notFound, res)

(***************************************************************************)
(* Serializer and AnyStack.  A Uint8Array is a sequence of bytes; element  *)
(* i of the array is element i + 1 of the sequence.  A value pushed or     *)
(* popped is a record [int, length, text, data]: a number has int, a       *)
(* string has length and text, a byte array has length and data.  No size   *)
(* the model reads from four bytes of the stack is negative or above       *)
(* 2^30 - 3, so 4 + 2 * size stays within 32 bits.                         *)
(***************************************************************************)
IntValue(n) == [int |-> n, length |-> 0, text |-> << >>, data |-> << >>]

TextValue(n, chars) == [int |-> 0, length |-> n, text |-> chars, data |-> << >>]

DataValue(n, items) == [int |-> 0, length |-> n, text |-> << >>, data |-> items]

\* The conversions to u16 and to i16.
u16(n) == n % 65536

i16(n) == IF n % 65536 >= 32768 THEN (n % 65536) - 65536 ELSE n % 65536

\* Math.abs(value) as i32
Math_abs(value) == IF value < 0 THEN 0 - value ELSE value

\* array.slice(begin, end): a negative index counts from the end, both
\* indices are clamped to the array.
Uint8Array_slice(array, begin, end) ==
  LET b == IF begin < 0 THEN Clamp(Len(array) + begin, Len(array))
           ELSE Clamp(begin, Len(array))
      e == IF end < 0 THEN Clamp(Len(array) + end, Len(array))
           ELSE Clamp(end, Len(array))
  IN  SubSeq(array, b + 1, e)

\* array.set(source, offset) for a source that fits: offset >= 0 and
\* Len(source) + offset <= Len(array); otherwise the call ends in a
\* RangeError.
Uint8Array_set(array, source, offset) ==
  [i \in 1..Len(array) |->
     IF i > offset /\ i <= offset + Len(source) THEN source[i - offset]
     ELSE array[i]]

\* Element k of an array that holds the bytes of source and zeros after them.
byteAt(source, k) == IF k < Len(source) THEN source[k + 1] ELSE 0

\* Serializer.fromInt16(value), littleEndian = false: byte i is
\* 0xFF & (value >> (i * 8)).
Serializer_fromInt16(value) ==
  << u16(value) % 256, u16(value) \div 256 >>

\* Serializer.intoInt16(value), littleEndian = false.
Serializer_intoInt16(value) ==
  IF Len(value) >= 2 THEN i16(value[1] * 256 + value[2]) ELSE 0

\* Serializer.fromInt32(value), littleEndian = false: byte i is
\* 0xFF & (value >> (i * 8)).
Serializer_fromInt32(value) ==
  << value % 256, (value \div 256) % 256, (value \div 65536) % 256,
     (value \div 16777216) % 256 >>

\* Serializer.intoInt32(value), littleEndian = false; the sum wraps as i32.
Serializer_intoInt32(value) ==
  IF Len(value) >= 4
  THEN value[1] + value[2] * 256 + value[3] * 65536
       + (IF value[4] >= 128 THEN value[4] - 256 ELSE value[4]) * 16777216
  ELSE 0

\* The bytes Serializer.fromString(value) writes after the length: two
\* per character, by fromInt16.
RECURSIVE stringBytes(_)
stringBytes(value) ==
  IF value = << >> THEN << >>
  ELSE Serializer_fromInt16(charCodeAt(Head(value))) \o stringBytes(Tail(value))

\* Serializer.fromString(value)
Serializer_fromString(value) ==
  Serializer_fromInt32(Len(value)) \o stringBytes(value)

\* new AnyStack(length, head)
AnyStack_new(length, head) ==
  [bytes |-> [i \in 1..length |-> 0],
   cursor |-> IF head THEN u16(length) ELSE 0]

\* stack.cursor = value
AnyStack_set_cursor(stack, value) ==
  [stack EXCEPT !.cursor = u16(Math_abs(value) % Len(stack.bytes))]

AnyStack_head(stack) == [stack EXCEPT !.cursor = u16(Len(stack.bytes) - 1)]

AnyStack_tail(stack) == [stack EXCEPT !.cursor = 0]

AnyStack_isEmpty(stack) == stack.cursor <= 0

AnyStack_hasSpace(stack, length) == stack.cursor + length < Len(stack.bytes)

\* What a method of the stack did: the stack after it and the value it
\* returned, or threw = TRUE when it ended in an uncaught RangeError.
Returned(stack, ret) == [stack |-> stack, ret |-> ret, threw |-> FALSE]

Trapped(stack) == [stack |-> stack, ret |-> IntValue(0), threw |-> TRUE]

\* The stack after a push wrote source at the cursor and moved the cursor
\* by length; the push returns the new cursor.
pushed(stack, source, length) ==
  Returned([bytes  |-> Uint8Array_set(stack.bytes, source, stack.cursor),
            cursor |-> u16(stack.cursor + length)],
           IntValue(u16(stack.cursor + length)))

AnyStack_pushByte(stack, value) ==
  IF ~AnyStack_hasSpace(stack, 1) THEN Returned(stack, IntValue(-1))
  ELSE pushed(stack, << value % 256 >>, 1)

AnyStack_popByte(stack) ==
  IF AnyStack_isEmpty(stack) THEN Returned(stack, IntValue(0))
  ELSE IF stack.cursor >= Len(stack.bytes) THEN Trapped(stack)
  ELSE Returned([stack EXCEPT !.cursor = u16(stack.cursor - 1)],
                IntValue(stack.bytes[stack.cursor + 1]))

AnyStack_pushInt16(stack, value) ==
  IF ~AnyStack_hasSpace(stack, 2) THEN Returned(stack, IntValue(-1))
  ELSE pushed(stack, Serializer_fromInt16(value), 2)

AnyStack_popInt16(stack) ==
  IF AnyStack_isEmpty(stack) THEN Returned(stack, IntValue(0))
  ELSE Returned([stack EXCEPT !.cursor = u16(stack.cursor - 2)],
                IntValue(Serializer_intoInt16(
                  Uint8Array_slice(stack.bytes, stack.cursor - 2, stack.cursor))))

AnyStack_pushInt32(stack, value) ==
  IF ~AnyStack_hasSpace(stack, 4) THEN Returned(stack, IntValue(-1))
  ELSE pushed(stack, Serializer_fromInt32(value), 4)

AnyStack_popInt32(stack) ==
  IF AnyStack_isEmpty(stack) THEN Returned(stack, IntValue(0))
  ELSE Returned([stack EXCEPT !.cursor = u16(stack.cursor - 4)],
                IntValue(Serializer_intoInt32(
                  Uint8Array_slice(stack.bytes, stack.cursor - 4, stack.cursor))))

\* pushString writes the characters at the cursor and the length after them.
AnyStack_pushString(stack, value) ==
  IF ~AnyStack_hasSpace(stack, (Len(value) * 2) + 4)
  THEN Returned(stack, IntValue(-1))
  ELSE pushed(stack,
              Uint8Array_slice(Serializer_fromString(value), 4,
                               4 + (Len(value) * 2))
                \o Serializer_fromInt32(Len(value)),
              (Len(value) * 2) + 4)

\* The first characters of the string Serializer.intoString reads from an
\* array that holds four bytes of length, then the bytes of stringData,
\* then zeros: as many as the stack has bytes; those after them have code 0.
stringPrefix(length, stringData, most) ==
  [i \in 1..Min(length, most) |->
     fromCharCode(byteAt(stringData, 2 * (i - 1))
                  + byteAt(stringData, (2 * (i - 1)) + 1) * 256)]

\* popString once stringSizeData, stringSize and stringData are read;
\* length is what Serializer.intoString reads back from stringStructure.
popStringOf(stack, stringSize, stringData, length) ==
  IF stringSize < 0 \/ Len(stringData) > stringSize * 2 THEN Trapped(stack)
  ELSE IF length <= 0 \/ 4 + (stringSize * 2) < (length * 2) - 4
  THEN Returned([stack EXCEPT !.cursor = u16(stack.cursor - ((stringSize * 2) - 4))],
                TextValue(0, << >>))
  ELSE IF length > stringSize THEN Trapped(stack)
  ELSE Returned([stack EXCEPT !.cursor = u16(stack.cursor - ((stringSize * 2) - 4))],
                TextValue(length, stringPrefix(length, stringData, Len(stack.bytes))))

\* popString once stringSizeData and stringSize are read.
popStringSized(stack, stringSizeData, stringSize) ==
  popStringOf(stack, stringSize,
              Uint8Array_slice(stack.bytes,
                               stack.cursor - (stringSize * 2) - 4,
                               stack.cursor - 4),
              Serializer_intoInt32(
                [i \in 1..4 |-> byteAt(stringSizeData, i - 1)]))

\* popString once stringSizeData is read.
popStringFrom(stack, stringSizeData) ==
  popStringSized(stack, stringSizeData, Serializer_intoInt32(stringSizeData))

AnyStack_popString(stack) ==
  IF AnyStack_isEmpty(stack) THEN Returned(stack, TextValue(0, << >>))
  ELSE popStringFrom(stack,
         Uint8Array_slice(stack.bytes, stack.cursor - 4, stack.cursor))

\* pushByteArray writes the bytes at the cursor and the length after them.
AnyStack_pushByteArray(stack, value) ==
  IF ~AnyStack_hasSpace(stack, Len(value) + 4)
  THEN Returned(stack, IntValue(-1))
  ELSE pushed(stack, value \o Serializer_fromInt32(Len(value)), Len(value) + 4)

\* The first bytes of the array popByteArray returns: as many as the
\* stack has bytes; those after them are 0.
arrayPrefix(arraySize, arrayData, most) ==
  [i \in 1..Min(arraySize, most) |-> byteAt(arrayData, i - 1)]

\* popByteArray once arraySize and arrayData are read.
popByteArrayOf(stack, arraySize, arrayData) ==
  IF arraySize < 0 \/ Len(arrayData) > arraySize THEN Trapped(stack)
  ELSE Returned([stack EXCEPT !.cursor = u16(stack.cursor - ((arraySize * 2) - 4))],
                DataValue(arraySize,
                          arrayPrefix(arraySize, arrayData, Len(stack.bytes))))

\* popByteArray once arraySize is read.
popByteArraySized(stack, arraySize) ==
  popByteArrayOf(stack, arraySize,
                 Uint8Array_slice(stack.bytes, stack.cursor - arraySize - 4,
                                  stack.cursor - 4))

AnyStack_popByteArray(stack) ==
  IF AnyStack_isEmpty(stack) THEN Returned(stack, DataValue(0, << >>))
  ELSE popByteArraySized(stack,
         Serializer_intoInt32(
           Uint8Array_slice(stack.bytes, stack.cursor - 4, stack.cursor)))

(***************************************************************************)
(* The inputs of the model.                                                *)
(***************************************************************************)
\* Sequences of 1..n elements of S.
SeqsUpTo(S, n) == UNION { [1..k -> S] : k \in 1..n }

\* segs.join(sep)
RECURSIVE join(_, _)
join(segs, sep) ==
  IF Len(segs) = 0 THEN << >>
  ELSE IF Len(segs) = 1 THEN segs[1]
  ELSE segs[1] \o sep \o join(Tail(segs), sep)

\* Pattern segments: a literal, a named parameter, the anonymous parameter,
\* a parameter with a name of one character, the wildcard and an alternation
\* with white space around an alternative.
PatternSegs ==
  { << "a" >>, << ":", "i", "d" >>, << ":" >>, << ":", "x" >>, << "*" >>,
    << "a", "|", " ", "b" >> }

\* What follows the last segment of a pattern.
PatternTails == { << >>, << "?" >>, << "?", "#" >> }

\* Request segments: a literal, one with white space before it, an upper
\* case one, a percent-escape and a malformed percent-escape.
RequestSegs ==
  { << "a" >>, << " ", "b" >>, << "B" >>, << "%", "4", "1" >>, << "%" >> }

\* The query and hash of a request line.
RequestTails ==
  { << >>, << "?", "k", "=", "v" >>, << "?", "k", "#", "h" >> }

Patterns ==
  { join(segs, << "/" >>) \o t : segs \in SeqsUpTo(PatternSegs, MaxRouteSegs), t \in PatternTails }

RequestLines ==
  { join(segs, << "/" >>) \o t : segs \in SeqsUpTo(RequestSegs, MaxRouteSegs), t \in RequestTails }

\* The parts of the URLs given to WebURL.from.
Schemes == { << >>, << "h", ":", "/", "/" >> }

Credentials == { << >>, << "u", ":", "p", "@" >>, << "u", "@", "v", "@" >> }

Hosts == { << >>, << "h" >>, << "[", "h", "]" >>, << "[", "h" >>, << "%" >> }

Ports ==
  { << >>, << ":" >>, << ":", "8" >>, << ":", "8", "0" >>, << ":", "8", "x" >>,
    << ":", "2", "1", "4", "7", "4", "8", "3", "6", "4", "8" >> }

AuthorityTails == { << >>, << "/", "a", "?", "k", "=", "v", "#", "f" >> }

\* Path segments: allow-listed characters of both cases, a space, escapes
\* that are well formed, cut short, not hexadecimal and above 127, and a
\* character above 127 alone and after an escape.
PathSegs ==
  { << "A", "~" >>, << " " >>, << "a", "%", "4", "1", "b" >>, << "%", "4" >>,
    << "%", "4", "g" >>, << "%", "f", "f" >>, << "^233" >>,
    << "%", "4", "1", "^233" >> }

PathChars == { "a", "A", " ", "%", "4", "f", "g", "^233" }

Queries ==
  { << >>, << "?", "k", "=", "v" >>,
    << "?", "k", "=", "v", "&", "j", "&", "k", "=", "w" >>,
    << "?", "?", "?", "a" >> }

Hashes == { << >>, << "#", "f" >>, << "#", "f", "?", "k" >> }

PathsOf(segs) == Concat([ i \in 1..Len(segs) |-> << "/" >> \o segs[i] ])

AuthorityInputs ==
  { s \o c \o h \o p \o t :
      s \in Schemes, c \in Credentials, h \in Hosts, p \in Ports, t \in AuthorityTails }

PathInputs ==
  { << "h", ":", "/", "/", "h" >> \o PathsOf(segs) \o q \o f :
      segs \in { << >> } \cup SeqsUpTo(PathSegs, MaxPathSegs),
      q \in Queries, f \in Hashes }

SegmentInputs ==
  { << "h", ":", "/", "/", "h", "/" >> \o seg :
      seg \in { << >> } \cup SeqsUpTo(PathChars, MaxSegLen) }

RawURLs == AuthorityInputs \cup PathInputs \cup SegmentInputs

\* The pieces of the texts given to WebURL.parseSearchParams: two names, the
\* separators, the "?" and a percent-escape.
QueryPieces ==
  { << "a" >>, << "b" >>, << "=" >>, << "&" >>, << "?" >>, << "%", "2", "0" >> }

\* The pairs given to new SMap(pairs) and to bulk(pairs): two keys, two
\* values, and pairs that are too short.
PairSet ==
  { << >>, << << "a" >> >>, << << "a" >>, << "1" >> >>, << << "a" >>, << "2" >> >>,
    << << "b" >>, << "1" >> >> }

PairLists == { << >> } \cup SeqsUpTo(PairSet, MaxPairs)

\* The values written to a WebResponse.
ResponseUrls == { << "u" >> }

ResponseStatuses == { 200, 404 }

ResponseHeaderMaps == { SMap_new, << << << "a" >>, << "1" >> >> >> }

ResponseHeaderLists ==
  { << << << "a" >>, << "2" >> >> >>,
    << << << "a" >>, << "1" >> >>, << << "b" >>, << "1" >> >> >> }

ResponseContents == { << >>, << "x" >> }

\* The routes of a WebRouter, the handlers registered for them, and the
\* requests handled.
RouterKeys ==
  { << "G", " ", "/", "a" >>, << "G", " ", "/", ":", "i", "d" >>,
    << "G", " ", "/", "b" >>, << "*" >> }

RouterHandlers == { "h1", "h2" }

RouterRequests ==
  { [method |-> m, url |-> u] :
      m \in { << "G" >>, << "P" >> },
      u \in { << "/", "a" >>, << " ", "/", "b", " " >>, << "/", "%" >> } }

QueryInputs ==
  { Concat(pieces) : pieces \in { << >> } \cup SeqsUpTo(QueryPieces, MaxQueryPieces) }

\* The values pushed on the stack and assigned to its cursor.
StackBytes == { 1, 5 }

StackInt16s == { 1, 258 }

StackInt32s == { 1, 258 }

StackStrings == { << >>, << "a" >> }

StackByteArrays == { << >>, << 2 >> }

StackCursors == { 3, -9 }

(***************************************************************************)
(* State.                                                                  *)
(***************************************************************************)
VARIABLES
  route_pc,    \* "call" before the call of WebRoute.match, "done" after it
  reference,   \* the pattern given to WebRoute.match
  path,        \* the request line given to WebRoute.match
  route,       \* what the call produced
  url_pc,      \* "call", "parsed" after WebURL.from(raw), "reparsed"
  raw,         \* the text given to WebURL.from
  url,         \* WebURL.from(raw)
  url2,        \* WebURL.from(url.href), once the caller has parsed href again
  query_pc,    \* "call" before the call of WebURL.parseSearchParams, "done" after
  queryValue,  \* the text given to WebURL.parseSearchParams
  queryResult, \* the map the call returned
  smap_pc,     \* "new" before new SMap(pairs), "constructed", "bulked"
  smapPairs,   \* the pairs given to the last of the two calls
  smapBefore,  \* the map before the last call
  smap,        \* the map
  res_pc,      \* "open" while a WebResponse is in use
  res,         \* the WebResponse
  resAtLock,   \* its observable state when it was last locked
  resOps,      \* the number of operations applied to it
  router_pc,   \* "setup" while routes are registered, "handled" after handle
  routes,      \* the keys of the WebRouter with their handlers, in order
  notFound,    \* the notFound handler, "null" when none is set
  request,     \* the request given to handle
  handled,     \* what handle did
  stack_pc,    \* "open" while an AnyStack is in use, "aborted" after a RangeError
  stack,       \* the AnyStack: its bytes and its cursor
  stackLast,   \* the last call on the stack, with the stack before it
  stackPrev,   \* the call before the last
  stackOps     \* the number of calls made on the stack

vars ==
  << route_pc, reference, path, route, url_pc, raw, url, url2,
     query_pc, queryValue, queryResult,
     smap_pc, smapPairs, smapBefore, smap,
     res_pc, res, resAtLock, resOps,
     router_pc, routes, notFound, request, handled,
     stack_pc, stack, stackLast, stackPrev, stackOps >>

routeVars == << route_pc, reference, path, route >>

urlVars == << url_pc, raw, url, url2 >>

queryVars == << query_pc, queryValue, queryResult >>

smapVars == << smap_pc, smapPairs, smapBefore, smap >>

resVars == << res_pc, res, resAtLock, resOps >>

routerVars == << router_pc, routes, notFound, request, handled >>

stackVars == << stack_pc, stack, stackLast, stackPrev, stackOps >>

\* The variables of the URL parser, the query codec and the route matcher,
\* and those of the map, the response and the router.
webVars == << routeVars, urlVars, queryVars >>

libVars == << smapVars, resVars, routerVars, stackVars >>

NoRoute ==
  [threw |-> FALSE, isValid |-> FALSE, params |-> SMap_new,
   searchParams |-> SMap_new, hash |-> << >>]

\* The route matcher at rest.
IdleRoute ==
  /\ route_pc = "idle"
  /\ reference = << >>
  /\ path = << >>
  /\ route = NoRoute

\* The URL parser at rest.
IdleURL ==
  /\ url_pc = "idle"
  /\ raw = << >>
  /\ url = WebURL_default
  /\ url2 = WebURL_default

\* The query codec at rest.
IdleQuery ==
  /\ query_pc = "idle"
  /\ queryValue = << >>
  /\ queryResult = SMap_new

\* The observable state of a response.
Observable(r) ==
  [status |-> r.status, url |-> r.url, headers |-> r.headers, body |-> r.body,
   redirected |-> r.redirected, isValid |-> r.isValid]

NoHandled == [threw |-> FALSE, invoked |-> << >>, res |-> WebResponse_new]

NoRequest == [method |-> << >>, url |-> << >>]

\* No map, no response and no router in use.
IdleSMap ==
  /\ smap_pc = "idle"
  /\ smapPairs = << >>
  /\ smapBefore = SMap_new
  /\ smap = SMap_new

IdleResponse ==
  /\ res_pc = "idle"
  /\ res = WebResponse_new
  /\ resAtLock = Observable(WebResponse_new)
  /\ resOps = 0

IdleRouter ==
  /\ router_pc = "idle"
  /\ routes = << >>
  /\ notFound = "null"
  /\ request = NoRequest
  /\ handled = NoHandled

IdleWeb == IdleRoute /\ IdleURL /\ IdleQuery

\* The stack before any call was made on it.
NoCall(s) ==
  [op |-> "new", arg |-> IntValue(0), ret |-> IntValue(0), threw |-> FALSE,
   before |-> s]

IdleStack ==
  /\ stack_pc = "idle"
  /\ stack = AnyStack_new(0, FALSE)
  /\ stackLast = NoCall(AnyStack_new(0, FALSE))
  /\ stackPrev = NoCall(AnyStack_new(0, FALSE))
  /\ stackOps = 0

IdleLib == IdleSMap /\ IdleResponse /\ IdleRouter /\ IdleStack

InitRoute ==
  /\ route_pc = "call"
  /\ reference \in Patterns
  /\ path \in RequestLines
  /\ route = NoRoute
  /\ IdleURL
  /\ IdleQuery
  /\ IdleLib

\* The call WebRoute.match(reference, path).
Match ==
  /\ route_pc = "call"
  /\ route' = WebRoute_match(reference, path)
  /\ route_pc' = "done"
  /\ UNCHANGED << reference, path >>
  /\ UNCHANGED urlVars
  /\ UNCHANGED queryVars
  /\ UNCHANGED libVars

NextRoute == Match

SpecRoute == InitRoute /\ [][NextRoute]_vars

InitURL ==
  /\ url_pc = "call"
  /\ raw \in RawURLs
  /\ url = WebURL_default
  /\ url2 = WebURL_default
  /\ IdleRoute
  /\ IdleQuery
  /\ IdleLib

\* The call WebURL.from(raw).
Parse ==
  /\ url_pc = "call"
  /\ url' = WebURL_from(raw)
  /\ url_pc' = "parsed"
  /\ UNCHANGED << raw, url2 >>
  /\ UNCHANGED routeVars
  /\ UNCHANGED queryVars
  /\ UNCHANGED libVars

\* The caller parses the href of a valid result again.
Reparse ==
  /\ url_pc = "parsed"
  /\ ~url.aborted
  /\ url.isValid
  /\ url2' = WebURL_from(url.href)
  /\ url_pc' = "reparsed"
  /\ UNCHANGED << raw, url >>
  /\ UNCHANGED routeVars
  /\ UNCHANGED queryVars
  /\ UNCHANGED libVars

NextURL == Parse \/ Reparse

SpecURL == InitURL /\ [][NextURL]_vars

InitQuery ==
  /\ query_pc = "call"
  /\ queryValue \in QueryInputs
  /\ queryResult = SMap_new
  /\ IdleRoute
  /\ IdleURL
  /\ IdleLib

\* The call WebURL.parseSearchParams(queryValue).
ParseQuery ==
  /\ query_pc = "call"
  /\ queryResult' = WebURL_parseSearchParams(queryValue)
  /\ query_pc' = "done"
  /\ UNCHANGED queryValue
  /\ UNCHANGED routeVars
  /\ UNCHANGED urlVars
  /\ UNCHANGED libVars

NextQuery == ParseQuery

SpecQuery == InitQuery /\ [][NextQuery]_vars

(***************************************************************************)
(* SMap: new SMap(pairs), then bulk(pairs).                                *)
(***************************************************************************)
InitSMap ==
  /\ smap_pc = "new"
  /\ smapPairs \in PairLists
  /\ smapBefore = SMap_new
  /\ smap = SMap_new
  /\ IdleWeb
  /\ IdleStack
  /\ IdleResponse
  /\ IdleRouter

\* new SMap(smapPairs)
Construct ==
  /\ smap_pc = "new"
  /\ smap' = SMap_construct(smapPairs)
  /\ smap_pc' = "constructed"
  /\ UNCHANGED << smapPairs, smapBefore >>
  /\ UNCHANGED << webVars, resVars, routerVars, stackVars >>

\* smap.bulk(pairs)
Bulk ==
  /\ smap_pc = "constructed"
  /\ \E pairs \in PairLists :
       /\ smapPairs' = pairs
       /\ smapBefore' = smap
       /\ smap' = SMap_bulk(smap, pairs, 0)
  /\ smap_pc' = "bulked"
  /\ UNCHANGED << webVars, resVars, routerVars, stackVars >>

NextSMap == Construct \/ Bulk

SpecSMap == InitSMap /\ [][NextSMap]_vars

(***************************************************************************)
(* WebResponse: a response and the operations on it.                       *)
(***************************************************************************)
InitResponse ==
  /\ res_pc = "open"
  /\ res = WebResponse_new
  /\ resAtLock = Observable(WebResponse_new)
  /\ resOps = 0
  /\ IdleWeb
  /\ IdleStack
  /\ IdleSMap
  /\ IdleRouter

\* One more operation on the response: rest is what it leaves alone.
ResponseStep ==
  /\ res_pc = "open"
  /\ resOps < MaxResponseOps
  /\ resOps' = resOps + 1
  /\ UNCHANGED res_pc
  /\ UNCHANGED << webVars, smapVars, routerVars, stackVars >>

\* res.lock(): the observable state is noted when the lock is set.
Lock ==
  /\ ResponseStep
  /\ res' = WebResponse_lock(res)
  /\ resAtLock' = IF res.isLocked THEN resAtLock ELSE Observable(res)

\* res.unlock()
Unlock ==
  /\ ResponseStep
  /\ res' = WebResponse_unlock(res)
  /\ UNCHANGED resAtLock

\* res.url = value
SetUrl ==
  /\ ResponseStep
  /\ \E value \in ResponseUrls : res' = WebResponse_set_url(res, value)
  /\ UNCHANGED resAtLock

\* res.status = value
SetStatusField ==
  /\ ResponseStep
  /\ \E value \in ResponseStatuses : res' = WebResponse_set_status(res, value)
  /\ UNCHANGED resAtLock

\* res.headers = value
SetHeadersField ==
  /\ ResponseStep
  /\ \E value \in ResponseHeaderMaps : res' = WebResponse_set_headers(res, value)
  /\ UNCHANGED resAtLock

\* res.body = value
SetBody ==
  /\ ResponseStep
  /\ \E value \in { NullBody, UTF16_encode(<< "y" >>) } :
       res' = WebResponse_set_body(res, value)
  /\ UNCHANGED resAtLock

\* res.redirect = value
SetRedirect ==
  /\ ResponseStep
  /\ \E value \in BOOLEAN : res' = WebResponse_set_redirect(res, value)
  /\ UNCHANGED resAtLock

\* res.isValid = value
SetIsValid ==
  /\ ResponseStep
  /\ \E value \in BOOLEAN : res' = WebResponse_set_isValid(res, value)
  /\ UNCHANGED resAtLock

\* res.setHeaders(headers)
SetHeaders ==
  /\ ResponseStep
  /\ \E headers \in ResponseHeaderLists : res' = WebResponse_setHeaders(res, headers)
  /\ UNCHANGED resAtLock

\* res.setStatus(status)
SetStatus ==
  /\ ResponseStep
  /\ \E status \in ResponseStatuses : res' = WebResponse_setStatus(res, status)
  /\ UNCHANGED resAtLock

\* res.write(content)
Write ==
  /\ ResponseStep
  /\ \E content \in ResponseContents : res' = WebResponse_write(res, content)
  /\ UNCHANGED resAtLock

NextResponse ==
  \/ Lock \/ Unlock \/ SetUrl \/ SetStatusField \/ SetHeadersField \/ SetBody
  \/ SetRedirect \/ SetIsValid \/ SetHeaders \/ SetStatus \/ Write

SpecResponse == InitResponse /\ [][NextResponse]_vars

(***************************************************************************)
(* WebRouter: routes are registered, then a request is handled.            *)
(***************************************************************************)
InitRouter ==
  /\ router_pc = "setup"
  /\ routes = << >>
  /\ notFound = "null"
  /\ request \in RouterRequests
  /\ handled = NoHandled
  /\ IdleWeb
  /\ IdleStack
  /\ IdleSMap
  /\ IdleResponse

\* router.set(key, handler): Map.set
Register ==
  /\ router_pc = "setup"
  /\ \E key \in RouterKeys, handler \in RouterHandlers :
       /\ SMap_has(routes, key) \/ Len(routes) < MaxRoutes
       /\ routes' = SMap_set(routes, key, handler)
  /\ UNCHANGED << router_pc, notFound, request, handled >>
  /\ UNCHANGED << webVars, smapVars, resVars, stackVars >>

\* router.notFound = handler
SetNotFound ==
  /\ router_pc = "setup"
  /\ notFound = "null"
  /\ notFound' = "notFound"
  /\ UNCHANGED << router_pc, routes, request, handled >>
  /\ UNCHANGED << webVars, smapVars, resVars, stackVars >>

\* router.handle(ctx, request, new WebResponse())
Handle ==
  /\ router_pc = "setup"
  /\ handled' = WebRouter_handle(routes, notFound, request, WebResponse_new)
  /\ router_pc' = "handled"
  /\ UNCHANGED << routes, notFound, request >>
  /\ UNCHANGED << webVars, smapVars, resVars, stackVars >>

NextRouter == Register \/ SetNotFound \/ Handle

SpecRouter == InitRouter /\ [][NextRouter]_vars

(***************************************************************************)
(* AnyStack: a stack is made, then values are pushed and popped and the    *)
(* cursor is moved.                                                        *)
(***************************************************************************)
InitStack ==
  /\ stack_pc = "open"
  /\ \E head \in BOOLEAN : stack = AnyStack_new(StackLength, head)
  /\ stackLast = NoCall(stack)
  /\ stackPrev = NoCall(stack)
  /\ stackOps = 0
  /\ IdleWeb
  /\ IdleSMap
  /\ IdleResponse
  /\ IdleRouter

\* One call on the stack: result is what the method did.
StackStep(op, arg, result) ==
  /\ stack_pc = "open"
  /\ stackOps < MaxStackOps
  /\ stackOps' = stackOps + 1
  /\ stack' = result.stack
  /\ stackLast' = [op |-> op, arg |-> arg, ret |-> result.ret,
                   threw |-> result.threw, before |-> stack]
  /\ stackPrev' = stackLast
  /\ stack_pc' = IF result.threw THEN "aborted" ELSE "open"
  /\ UNCHANGED << webVars, smapVars, resVars, routerVars >>

PushByte ==
  /\ stack_pc = "open"
  /\ \E value \in StackBytes :
       StackStep("pushByte", IntValue(value), AnyStack_pushByte(stack, value))

PopByte ==
  /\ stack_pc = "open"
  /\ StackStep("popByte", IntValue(0), AnyStack_popByte(stack))

PushInt16 ==
  /\ stack_pc = "open"
  /\ \E value \in StackInt16s :
       StackStep("pushInt16", IntValue(value), AnyStack_pushInt16(stack, value))

PopInt16 ==
  /\ stack_pc = "open"
  /\ StackStep("popInt16", IntValue(0), AnyStack_popInt16(stack))

PushInt32 ==
  /\ stack_pc = "open"
  /\ \E value \in StackInt32s :
       StackStep("pushInt32", IntValue(value), AnyStack_pushInt32(stack, value))

PopInt32 ==
  /\ stack_pc = "open"
  /\ StackStep("popInt32", IntValue(0), AnyStack_popInt32(stack))

PushString ==
  /\ stack_pc = "open"
  /\ \E value \in StackStrings :
       StackStep("pushString", TextValue(Len(value), value),
                 AnyStack_pushString(stack, value))

PopString ==
  /\ stack_pc = "open"
  /\ StackStep("popString", IntValue(0), AnyStack_popString(stack))

PushByteArray ==
  /\ stack_pc = "open"
  /\ \E value \in StackByteArrays :
       StackStep("pushByteArray", DataValue(Len(value), value),
                 AnyStack_pushByteArray(stack, value))

PopByteArray ==
  /\ stack_pc = "open"
  /\ StackStep("popByteArray", IntValue(0), AnyStack_popByteArray(stack))

\* stack.head()
HeadStack ==
  /\ stack_pc = "open"
  /\ StackStep("head", IntValue(0), Returned(AnyStack_head(stack), IntValue(0)))

\* stack.tail()
TailStack ==
  /\ stack_pc = "open"
  /\ StackStep("tail", IntValue(0), Returned(AnyStack_tail(stack), IntValue(0)))

\* stack.cursor = value
SetCursor ==
  /\ stack_pc = "open"
  /\ \E value \in StackCursors :
       StackStep("cursor", IntValue(value),
                 Returned(AnyStack_set_cursor(stack, value), IntValue(0)))

NextStack ==
  \/ PushByte \/ PopByte \/ PushInt16 \/ PopInt16 \/ PushInt32 \/ PopInt32
  \/ PushString \/ PopString \/ PushByteArray \/ PopByteArray
  \/ HeadStack \/ TailStack \/ SetCursor

SpecStack == InitStack /\ [][NextStack]_vars

Init ==
  \/ InitRoute \/ InitURL \/ InitQuery \/ InitSMap \/ InitResponse \/ InitRouter
  \/ InitStack

Next ==
  \/ NextRoute \/ NextURL \/ NextQuery \/ NextSMap \/ NextResponse \/ NextRouter
  \/ NextStack

Spec == Init /\ [][Next]_vars

(***************************************************************************)
(* Properties of WebURL.from.                                              *)
(***************************************************************************)
\* The text of raw after its first "//".
AfterScheme(s) == SubSeq(s, indexOf(s, << "/", "/" >>) + 3, Len(s))

\* C1: WebURL.from is total: for every input it returns a WebURL with a
\* definite isValid and never ends in an uncaught error; an input without
\* "//", or with "%" right after it, gives the invalid result.
C1_FromIsTotal ==
  url_pc # "call" =>
    /\ ~url.aborted
    /\ url.isValid \in BOOLEAN
    /\ url_pc = "reparsed" => (~url2.aborted /\ url2.isValid \in BOOLEAN)
    /\ indexOf(raw, << "/", "/" >>) < 0 => ~url.isValid
    /\ (indexOf(raw, << "/", "/" >>) >= 0 /\ startsWith(AfterScheme(raw), << "%" >>))
         => ~url.isValid

\* C1 witness: the input that is only a scheme has been parsed.
C1_Witness ==
  /\ url_pc = "parsed"
  /\ raw = << "h", ":", "/", "/" >>
  /\ ~url.aborted
  /\ url.isValid

\* C2: an invalid result of WebURL.from has every other field at its
\* default: the strings empty, searchParams empty, port 0.
C2_InvalidIsDefault ==
  \A u \in (IF url_pc = "call" THEN {} ELSE {url})
            \cup (IF url_pc = "reparsed" THEN {url2} ELSE {}) :
    ~u.isValid =>
      /\ u.protocol = << >> /\ u.username = << >> /\ u.password = << >>
      /\ u.href = << >> /\ u.origin = << >> /\ u.host = << >>
      /\ u.pathname = << >> /\ u.search = << >> /\ u.hash = << >>
      /\ u.searchParams = << >>
      /\ u.port = 0

\* C2 witness: an input whose protocol, credentials, query and hash were
\* read before the port gate failed.
C2_Witness ==
  /\ url_pc = "parsed"
  /\ raw = << "h", ":", "/", "/", "u", ":", "p", "@", "h", ":", "8", "x",
              "/", "a", "?", "k", "=", "v", "#", "f" >>
  /\ ~url.isValid

\* C3: parsing the href of a valid result again gives the same pathname,
\* host, port and searchParams.
C3_RoundTrip ==
  url_pc = "reparsed" =>
    /\ url2.isValid
    /\ url2.pathname = url.pathname
    /\ url2.host = url.host
    /\ url2.port = url.port
    /\ url2.searchParams = url.searchParams

(***************************************************************************)
(* Properties of WebRoute.match.                                           *)
(***************************************************************************)
\* The text of s before its first "?" or "#", after its first "?" (to the
\* end, and to the "#" that follows), and after its first "#".
BeforeQueryOrHash(s) ==
  LET q == indexOf(s, << "?" >>)
      h == indexOf(s, << "#" >>)
      cut == IF q < 0 THEN h ELSE IF h < 0 THEN q ELSE Min(q, h)
  IN  IF cut < 0 THEN s ELSE SubSeq(s, 1, cut)

AfterQuery(s) == SubSeq(s, indexOf(s, << "?" >>) + 2, Len(s))

AfterHash(s) == SubSeq(s, indexOf(s, << "#" >>) + 2, Len(s))

\* The readings of "the query of the request line": the text after "?",
\* with or without the hash that follows it; no "?" gives the empty text.
QueryTexts(s) ==
  IF indexOf(s, << "?" >>) < 0 THEN { << >> }
  ELSE { AfterQuery(s), BeforeQueryOrHash(AfterQuery(s)) }

\* C4: searchParams is the query codec applied to the request line's text
\* after its "?", and hash is the request line's text after its "#",
\* whatever the pattern is.
C4_QueryAndHashFromRequest ==
  (route_pc = "done" /\ ~route.threw) =>
    /\ route.searchParams \in
         { WebURL_parseSearchParams(q) : q \in QueryTexts(path) }
           \cup (IF indexOf(path, << "?" >>) < 0 THEN { SMap_new } ELSE {})
    /\ route.hash = (IF indexOf(path, << "#" >>) < 0 THEN << >> ELSE AfterHash(path))

\* C5: for a pattern without "?" and "#", the query and the hash of the
\* request line change neither isValid nor params.
C5_QueryDoesNotTakePart ==
  (route_pc = "done" /\ BeforeQueryOrHash(reference) = reference) =>
    LET bare == WebRoute_match(reference, BeforeQueryOrHash(path))
    IN  /\ route.threw = bare.threw
        /\ route.isValid = bare.isValid
        /\ route.params = bare.params

\* C6: WebRoute.match never ends in an uncaught error.
C6_MatchIsTotal == route_pc = "done" => ~route.threw

\* The segments of the path portions of a pattern and of a request line.
PatternSegments(p) == split(BeforeQueryOrHash(p), << "/" >>)

RequestSegments(r) == split(BeforeQueryOrHash(r), << "/" >>)

\* The alternatives of a "|" segment, each trimmed.
Alternatives(seg) == { trim(alt) : alt \in { split(seg, << "|" >>)[k] : k \in 1..Len(split(seg, << "|" >>)) } }

\* A position matches by the rule of its pattern segment P (trimmed) for
\* the request segment R.
PositionMatches(P, R) ==
  IF startsWith(P, << ":" >>) THEN TRUE
  ELSE IF indexOf(P, << "|" >>) >= 0 THEN trim(R) \in Alternatives(P)
  ELSE IF P = << "*" >> THEN TRUE
  ELSE P = trim(R)

\* C7: a position whose pattern segment is ":name", the name of two or more
\* characters, always succeeds with params[name] the percent-decoded request
\* segment; when every other position matches, the result is matched.
C7_NamedCapture ==
  route_pc = "done" =>
    LET P == PatternSegments(reference)
        R == RequestSegments(path)
        m == Min(Len(P), Len(R))
    IN  \A i \in 1..m :
          ( /\ startsWith(trim(P[i]), << ":" >>)
            /\ Len(trim(P[i])) >= 3
            /\ \A j \in 1..m : trim(P[j]) # << "*" >>
            /\ \A j \in (i + 1)..m : trim(P[j]) # trim(P[i])
            /\ \A j \in 1..m : j # i => PositionMatches(trim(P[j]), R[j]) )
          => /\ ~route.threw
             /\ route.isValid
             /\ SMap_get(route.params, SubSeq(trim(P[i]), 2, Len(trim(P[i]))))
                  \in { decodeURIComponent(R[i]).value,
                        decodeURIComponent(trim(R[i])).value }

\* The positions the loop visits, as the code splits its arguments.
CodeP == selfRoutesOf(reference)

CodeR == matchRoutesOf(reference, path)

CodeM == Min(Len(CodeP), Len(CodeR))

\* Position i (from 1) neither fails nor throws.
PositionPasses(i) ==
  segmentOutcome(trim(CodeP[i]), trim(CodeR[i])) \in { "capture", "continue", "wildcard" }

\* C8: only the first min(pattern segments, request segments) positions are
\* examined: when each of them succeeds the result is matched, whichever of
\* the two is longer, params has captures of those positions only, and
\* the call on the two lists cut to that length gives the same isValid and
\* params.
C8_OnlyCommonPositions ==
  route_pc = "done" =>
    /\ (\A i \in 1..CodeM : PositionPasses(i)) => (~route.threw /\ route.isValid)
    /\ \A k \in 1..Len(route.params) :
         \E i \in 1..CodeM :
           /\ startsWith(trim(CodeP[i]), << ":" >>)
           /\ route.params[k][1] = captureKey(trim(CodeP[i]))
    /\ LET cut == WebRoute_match(join(SubSeq(CodeP, 1, CodeM), << "/" >>),
                                  join(SubSeq(CodeR, 1, CodeM), << "/" >>))
       IN  /\ cut.threw = route.threw
           /\ cut.isValid = route.isValid
           /\ cut.params = route.params

\* C8 witness: a pattern of one segment is matched by a request line of two.
C8_Witness ==
  /\ route_pc = "done"
  /\ Len(CodeP) = 1
  /\ Len(CodeR) = 2
  /\ route.isValid

\* C9: when every position before a "*" succeeds and the request has a
\* segment at its position, the result is matched, whatever the later
\* segments are.
C9_WildcardShortCircuit ==
  route_pc = "done" =>
    \A k \in 1..CodeM :
      (trim(CodeP[k]) = << "*" >> /\ \A i \in 1..(k - 1) : PositionPasses(i))
        => (~route.threw /\ route.isValid)

\* C9 witness: "*" is followed by a named parameter whose request segment is
\* not a well-formed percent-encoding, and the result is matched.
C9_Witness ==
  /\ route_pc = "done"
  /\ reference = << "*", "/", ":", "i", "d" >>
  /\ path = << "a", "/", "%" >>
  /\ route.isValid

\* Position i is reached: every position before it matched and was not "*".
Reached(i) ==
  \A j \in 1..(i - 1) :
    segmentOutcome(trim(CodeP[j]), trim(CodeR[j])) \in { "capture", "continue" }

\* Every position after i passes.
LaterPass(i) == \A j \in (i + 1)..CodeM : PositionPasses(j)

IsAlternation(P) == indexOf(P, << "|" >>) >= 0 /\ ~startsWith(P, << ":" >>)

\* C10 as stated: an alternation position succeeds iff the request segment
\* equals one of the trimmed alternatives, and the match fails otherwise.
C10_AlternationAsStated ==
  route_pc = "done" =>
    \A i \in 1..CodeM :
      (IsAlternation(trim(CodeP[i])) /\ Reached(i)) =>
        /\ (CodeR[i] \in Alternatives(trim(CodeP[i])) /\ LaterPass(i))
             => (~route.threw /\ route.isValid)
        /\ CodeR[i] \notin Alternatives(trim(CodeP[i]))
             => (~route.threw /\ ~route.isValid)

\* C10 amended: an alternation position succeeds iff the request segment,
\* trimmed of the white space around it, equals one of the trimmed
\* alternatives (case-sensitively); otherwise the match fails.
C10_Alternation ==
  route_pc = "done" =>
    \A i \in 1..CodeM :
      (IsAlternation(trim(CodeP[i])) /\ Reached(i)) =>
        /\ (trim(CodeR[i]) \in Alternatives(trim(CodeP[i])) /\ LaterPass(i))
             => (~route.threw /\ route.isValid)
        /\ trim(CodeR[i]) \notin Alternatives(trim(CodeP[i]))
             => (~route.threw /\ ~route.isValid)

\* C10 witness: the request segment " b" matches the alternation "a| b".
C10_Witness ==
  /\ route_pc = "done"
  /\ reference = << "a", "|", " ", "b" >>
  /\ path = << " ", "b" >>
  /\ route.isValid

\* The key the rule for names gives to the ":name" segment P.
NameKey(P) ==
  IF Len(P) >= 3 THEN SubSeq(P, 2, Len(P)) ELSE << "_" >>

\* The keys of a map.
KeysOf(m) == { m[e][1] : e \in 1..Len(m) }

\* C11: when a literal or alternation position k is the first that does not
\* match (every position before it matched or captured), the call returns
\* isValid = false and params holds exactly the captures of the named
\* positions before k, none of a later position.
C11_StopsAtFirstMismatch ==
  route_pc = "done" =>
    \A k \in 1..CodeM :
      ( /\ Reached(k)
        /\ ~startsWith(trim(CodeP[k]), << ":" >>)
        /\ trim(CodeP[k]) # << "*" >>
        /\ ~PositionMatches(trim(CodeP[k]), CodeR[k]) )
      => LET named == { j \in 1..(k - 1) : startsWith(trim(CodeP[j]), << ":" >>) }
             keys  == { NameKey(trim(CodeP[j])) : j \in named }
         IN  /\ ~route.threw
             /\ ~route.isValid
             /\ KeysOf(route.params) = keys
             /\ Len(route.params) = Cardinality(keys)
             /\ \A j \in named :
                  (\A l \in named : l > j => NameKey(trim(CodeP[l])) # NameKey(trim(CodeP[j])))
                    => SMap_get(route.params, NameKey(trim(CodeP[j])))
                         = decodeURIComponent(trim(CodeR[j])).value

\* C11 witness: ":id/a" against "%41/B" fails at the second position with
\* the capture of the first.
C11_Witness ==
  /\ route_pc = "done"
  /\ reference = << ":", "i", "d", "/", "a" >>
  /\ path = << "%", "4", "1", "/", "B" >>
  /\ ~route.isValid
  /\ route.params = << << << "i", "d" >>, << "A" >> >> >>

\* C12: a capture of ":" or of ":x" is stored under "_", a capture of a name
\* of two or more characters under the name; no key of params is empty or a
\* one-character name.
C12_CaptureKey ==
  (route_pc = "done" /\ ~route.threw) =>
    /\ \A i \in 1..CodeM :
         (Reached(i) /\ startsWith(trim(CodeP[i]), << ":" >>)) =>
           LET name == SubSeq(trim(CodeP[i]), 2, Len(trim(CodeP[i])))
           IN  /\ Len(name) <= 1 => SMap_has(route.params, << "_" >>)
               /\ Len(name) >= 2 => SMap_has(route.params, name)
    /\ \A key \in KeysOf(route.params) : key = << "_" >> \/ Len(key) >= 2

\* C12 witness: the pattern ":/a" has captured the first segment of "B/a"
\* under "_", and the pattern ":x" has done the same.
C12_Witness ==
  /\ route_pc = "done"
  /\ \/ reference = << ":", "/", "a" >> /\ path = << "B", "/", "a" >>
     \/ reference = << ":", "x" >> /\ path = << "B" >>
  /\ route.isValid
  /\ route.params = << << << "_" >>, << "B" >> >> >>

(***************************************************************************)
(* Properties of WebURL.parseSearchParams.                                 *)
(***************************************************************************)
\* C13: WebURL.parseSearchParams("") returns an empty map.
C13_EmptyInputEmptyMap ==
  (query_pc = "done" /\ queryValue = << >>) =>
    /\ SMap_size(queryResult) = 0
    /\ ~SMap_has(queryResult, << >>)

\* The tokens of a query text, and what the rule for one token gives for
\* token i (from 1): the token without the "?" that leads the first token,
\* its key and its value.
Tokens(value) == split(value, << "&" >>)

TokenBody(value, i) ==
  LET t == Tokens(value)[i]
  IN  IF i = 1 /\ Len(t) > 0 /\ t[1] = "?" THEN Tail(t) ELSE t

TokenKey(value, i) ==
  LET body == TokenBody(value, i)
      eq   == indexOf(body, << "=" >>)
  IN  IF eq < 0 THEN body ELSE SubSeq(body, 1, eq)

TokenValue(value, i) ==
  LET t  == Tokens(value)[i]
      eq == indexOf(t, << "=" >>)
  IN  IF eq < 0 THEN << >> ELSE SubSeq(t, eq + 2, Len(t))

\* C14: the map holds, for every "&" token, the key before the token's first
\* "=" (the whole token when it has none) with the text after that "=" as it
\* is written (the empty text when it has none); only the first token loses
\* one leading "?"; of two tokens with one key the later gives the value.
C14_TokenSplit ==
  query_pc = "done" =>
    LET n    == Len(Tokens(queryValue))
        keys == { TokenKey(queryValue, i) : i \in 1..n }
    IN  /\ KeysOf(queryResult) = keys
        /\ Len(queryResult) = Cardinality(keys)
        /\ \A i \in 1..n :
             (\A j \in (i + 1)..n : TokenKey(queryValue, j) # TokenKey(queryValue, i))
               => SMap_get(queryResult, TokenKey(queryValue, i)) = TokenValue(queryValue, i)

\* C14 witness: "?a=%20" has been parsed: the key "a", without the "?", with
\* the value "%20" as it is written.
C14_Witness ==
  /\ query_pc = "done"
  /\ queryValue = << "?", "a", "=", "%", "2", "0" >>
  /\ queryResult = << << << "a" >>, << "%", "2", "0" >> >> >>

(***************************************************************************)
(* Properties of the authority and of the path of WebURL.from.             *)
(***************************************************************************)
\* The text of raw between "//" and the first "?" or "#", split at "/": the
\* authority is the first element, the path segments are the others.
RawParts(s) == split(BeforeQueryOrHash(AfterScheme(s)), << "/" >>)

Authority(s) == RawParts(s)[1]

\* The 1-based index of the last "@" of a, 0 when it has none.
LastAt(a) ==
  IF \E i \in 1..Len(a) : a[i] = "@"
  THEN CHOOSE i \in 1..Len(a) : a[i] = "@" /\ \A j \in (i + 1)..Len(a) : a[j] # "@"
  ELSE 0

\* The host:port candidate: the authority after its last "@".
HostPortCandidate(s) == SubSeq(Authority(s), LastAt(Authority(s)) + 1, Len(Authority(s)))

\* A string of digits without its leading zeros.
RECURSIVE StripZeros(_)
StripZeros(d) ==
  IF Len(d) > 1 /\ d[1] = "0" THEN StripZeros(Tail(d)) ELSE d

\* C15: the origin of a valid result is protocol + "//" + host, followed by
\* ":" + port only when the port is not 80; an input without a port gives
\* the port 80.
C15_Origin ==
  (url_pc # "call" /\ url.isValid) =>
    /\ url.origin =
         url.protocol \o << "/", "/" >> \o url.host
           \o (IF url.port = 80 THEN << >> ELSE << ":" >> \o toString10(url.port))
    /\ indexOf(HostPortCandidate(raw), << ":" >>) < 0 => url.port = 80

\* C16: the authority is split at its last "@": the credentials are the text
\* before it, username before their first ":" and password after it, and the
\* host of a valid result has no "@".
C16_SplitAtLastAt ==
  (url_pc # "call" /\ url.isValid) =>
    LET a     == Authority(raw)
        at    == LastAt(a)
        cred  == SubSeq(a, 1, at - 1)
        colon == indexOf(cred, << ":" >>)
    IN  /\ indexOf(url.host, << "@" >>) < 0
        /\ url.username = (IF at = 0 THEN << >>
                            ELSE IF colon < 0 THEN cred ELSE SubSeq(cred, 1, colon))
        /\ url.password = (IF at = 0 \/ colon < 0 THEN << >>
                            ELSE SubSeq(cred, colon + 2, Len(cred)))

\* C17: an input whose host begins with "[" is invalid, so that no valid
\* result has a host that begins with "[".
C17_NoIPv6 ==
  url_pc # "call" =>
    /\ startsWith(HostPortCandidate(raw), << "[" >>) => ~url.isValid
    /\ url.isValid => ~startsWith(url.host, << "[" >>)

\* C18: when the host:port candidate has a ":", a text after the first ":"
\* that is empty or has a character that is no digit gives the invalid
\* result; in a valid result host is the text before the ":" and port the
\* decimal value of the digits.
C18_PortDigits ==
  (url_pc # "call" /\ indexOf(HostPortCandidate(raw), << ":" >>) >= 0) =>
    LET c      == HostPortCandidate(raw)
        colon  == indexOf(c, << ":" >>)
        digits == SubSeq(c, colon + 2, Len(c))
    IN  /\ (digits = << >> \/ \E i \in 1..Len(digits) :
              \A d \in 1..10 : portStringNumbers[d] # digits[i])
             => ~url.isValid
        /\ url.isValid =>
             /\ url.host = SubSeq(c, 1, colon)
             /\ toString10(url.port) = StripZeros(digits)

\* The hexadecimal digits of both cases.
HexChars == { HexDigits[i] : i \in 1..22 }

\* The path segments of raw.
RawPathSegments(s) == { RawParts(s)[i] : i \in 2..Len(RawParts(s)) }

\* C19: a "%" of a path segment that is not followed, inside the segment, by
\* two hexadecimal digits gives the invalid result.
C19_EscapeNeedsTwoHexDigits ==
  (url_pc # "call" /\ url.isValid) =>
    \A seg \in RawPathSegments(raw) :
      \A i \in 1..Len(seg) :
        seg[i] = "%" =>
          /\ i + 2 <= Len(seg)
          /\ seg[i + 1] \in HexChars
          /\ seg[i + 2] \in HexChars

\* C20: a percent-escape of a path segment whose two digits give a value
\* above 127 gives the invalid result.
C20_EscapeAtMost127 ==
  (url_pc # "call" /\ url.isValid) =>
    \A seg \in RawPathSegments(raw) :
      \A i \in 1..Len(seg) :
        (seg[i] = "%" /\ i + 2 <= Len(seg)
           /\ seg[i + 1] \in HexChars /\ seg[i + 2] \in HexChars)
          => 16 * hexValue(seg[i + 1]) + hexValue(seg[i + 2]) <= 127

(***************************************************************************)
(* Properties of the normalized path, of href and of search.               *)
(***************************************************************************)
\* The characters of the allow-list, of both cases.
AllowList == { c \in PathChars \cup { tcpCharset[i] : i \in 1..Len(tcpCharset) } :
                 \E i \in 1..Len(tcpCharset) : tcpCharset[i] = toLowerCase(c) }

\* The segments of the pathname of the result: the element after each "/".
PathnameSegments == split(url.pathname, << "/" >>)

\* Position i of seg starts a percent-escape with two hexadecimal digits.
EscapeAt(seg, i) ==
  /\ seg[i] = "%"
  /\ i + 2 <= Len(seg)
  /\ seg[i + 1] \in HexChars
  /\ seg[i + 2] \in HexChars

\* seg has only allow-listed characters and percent-escapes of two digits.
OnlyPlainAndEscapes(seg) ==
  \A i \in 1..Len(seg) :
    \/ seg[i] \in AllowList /\ ~(i > 1 /\ seg[i - 1] = "%") /\ ~(i > 2 /\ seg[i - 2] = "%")
    \/ EscapeAt(seg, i)
    \/ i > 1 /\ EscapeAt(seg, i - 1)
    \/ i > 2 /\ EscapeAt(seg, i - 2)

\* C21: a percent-escape of two hexadecimal digits is written as it is in
\* the normalized segment, and so are the allow-listed characters around
\* it: a segment of such escapes and characters is its own normal form.
C21_EscapeKept ==
  (url_pc # "call" /\ url.isValid) =>
    \A i \in 2..Len(RawParts(raw)) :
      OnlyPlainAndEscapes(RawParts(raw)[i]) =>
        /\ Len(PathnameSegments) = Len(RawParts(raw))
        /\ PathnameSegments[i] = RawParts(raw)[i]

\* C22: a path segment with a character above 127 gives the invalid result,
\* wherever the character stands.
C22_NonAsciiRejected ==
  (url_pc # "call" /\ url.isValid) =>
    \A seg \in RawPathSegments(raw) :
      \A i \in 1..Len(seg) : charCodeAt(seg[i]) <= 127

\* The two-digit hexadecimal form of a code below 256.
Hex2(code) == << HexDigits[(code \div 16) + 1], HexDigits[(code % 16) + 1] >>

\* The normal form of a text without "%": allow-listed characters as they
\* are, every other character as "%" and its code.
RECURSIVE Encode(_)
Encode(t) ==
  IF t = << >> THEN << >>
  ELSE (IF t[1] \in AllowList THEN << t[1] >> ELSE << "%" >> \o Hex2(charCodeAt(t[1])))
         \o Encode(Tail(t))

\* The text of seg before its first "%".
BeforePercent(seg) ==
  IF indexOf(seg, << "%" >>) < 0 THEN seg ELSE SubSeq(seg, 1, indexOf(seg, << "%" >>))

NormalChars == AllowList \cup HexChars \cup { "/", "%" }

\* C26: href is origin + pathname + search, then "#" + hash exactly when the
\* text after the scheme has a "#"; pathname has one "/" and one normalized
\* segment for each path segment of the input and no character that
\* normalization does not write.
C26_HrefFromParts ==
  (url_pc # "call" /\ url.isValid) =>
    /\ url.href =
         url.origin \o url.pathname \o url.search
           \o (IF indexOf(AfterScheme(raw), << "#" >>) >= 0
                THEN << "#" >> \o url.hash ELSE << >>)
    /\ indexOf(AfterScheme(raw), << "#" >>) < 0 => url.hash = << >>
    /\ Len(PathnameSegments) = Len(RawParts(raw))
    /\ Len(RawParts(raw)) > 1 => url.pathname[1] = "/"
    /\ \A i \in 1..Len(url.pathname) : url.pathname[i] \in NormalChars

\* C26 witness: a path with a space, a query and a hash has been put
\* together again.
C26_Witness ==
  /\ url_pc = "parsed"
  /\ raw = << "h", ":", "/", "/", "h", "/", " ", "?", "k", "=", "v", "#", "f" >>
  /\ url.isValid
  /\ url.href = << "h", ":", "/", "/", "h", "/", "%", "2", "0", "?", "k", "=", "v", "#", "f" >>

\* The text of raw after its first "?" when that stands before the first
\* "#": the query of the input.
RawQuery(s) ==
  LET noHash == IF indexOf(AfterScheme(s), << "#" >>) < 0 THEN AfterScheme(s)
                ELSE SubSeq(AfterScheme(s), 1, indexOf(AfterScheme(s), << "#" >>))
  IN  AfterQuery(noHash)

HasRawQuery(s) ==
  LET h == indexOf(AfterScheme(s), << "#" >>)
      q == indexOf(AfterScheme(s), << "?" >>)
  IN  q >= 0 /\ (h < 0 \/ q < h)

\* The distinct keys of the tokens 1..n of a query text, in the order of
\* their first occurrence.
RECURSIVE KeyOrder(_, _)
KeyOrder(value, n) ==
  IF n = 0 THEN << >>
  ELSE LET before == KeyOrder(value, n - 1)
           key    == TokenKey(value, n)
       IN  IF \E i \in 1..Len(before) : before[i] = key THEN before
           ELSE Append(before, key)

\* The value of the last token of a query text that has the key.
LastValue(value, key) ==
  LET n == Len(Tokens(value))
      i == CHOOSE i \in 1..n :
             TokenKey(value, i) = key /\ \A j \in (i + 1)..n : TokenKey(value, j) # key
  IN  TokenValue(value, i)

\* C27: search is empty when the input has no "?" before its first "#";
\* otherwise it is "?" and the entries as key=value joined with "&", each
\* key once, at the place of its first token, with the value of its last.
C27_SearchFromParams ==
  (url_pc # "call" /\ url.isValid) =>
    IF ~HasRawQuery(raw) THEN url.search = << >>
    ELSE LET order == KeyOrder(RawQuery(raw), Len(Tokens(RawQuery(raw))))
         IN  url.search =
               << "?" >> \o join([ i \in 1..Len(order) |->
                                      order[i] \o << "=" >> \o LastValue(RawQuery(raw), order[i]) ],
                                  << "&" >>)

\* C27 witness: the query "k=v&j&k=w" has become "?k=w&j=".
C27_Witness ==
  /\ url_pc = "parsed"
  /\ raw = << "h", ":", "/", "/", "h", "?", "k", "=", "v", "&", "j", "&", "k", "=", "w" >>
  /\ url.isValid
  /\ url.search = << "?", "k", "=", "w", "&", "j", "=" >>

(***************************************************************************)
(* Properties of WebRouter, SMap and WebResponse.                          *)
(***************************************************************************)
\* The match of a key with the request line succeeds.
MatchSucceeds(key, line) == routeOutcome(WebRoute_match(key, line)) = "valid"

\* C24: handle invokes exactly one handler: that of the first key, in the
\* order of registration, whose match succeeds; with no such key the
\* notFound handler when one is set, and otherwise the built-in handler,
\* which sets the status 404 and locks the response.
C24_FirstMatchWins ==
  router_pc = "handled" =>
    LET line    == requestLineOf(request)
        matches == { i \in 1..Len(routes) : MatchSucceeds(routes[i][1], line) }
    IN  /\ ~handled.threw
        /\ Len(handled.invoked) = 1
        /\ \A i \in matches :
             (\A j \in matches : i <= j) => handled.invoked[1] = routes[i][2]
        /\ (matches = {} /\ notFound # "null") => handled.invoked[1] = notFound
        /\ (matches = {} /\ notFound = "null") =>
             /\ handled.invoked[1] = "builtin"
             /\ handled.res.status = 404
             /\ handled.res.isLocked

\* The pairs of a list set one after the other, from pair i (from 1) on.
RECURSIVE SetEach(_, _, _)
SetEach(m, pairs, i) ==
  IF i > Len(pairs) THEN m
  ELSE SetEach(SMap_set(m, SMap_keyOf(pairs[i]), SMap_valueOf(pairs[i])), pairs, i + 1)

\* C25: after new SMap(pairs) and after bulk(pairs) every pair of the list
\* is in the map: each key has the value of the last pair with it, at the
\* place of its first insertion, and the size is the number of keys.
C25_BulkStoresEveryPair ==
  smap_pc \in { "constructed", "bulked" } =>
    /\ smap = SetEach(smapBefore, smapPairs, 1)
    /\ \A i \in 1..Len(smapPairs) : SMap_has(smap, SMap_keyOf(smapPairs[i]))

\* C28: while the response is locked its observable state is what it was
\* when the lock was set.
C28_LockedIsFrozen ==
  (res_pc = "open" /\ res.isLocked) => Observable(res) = resAtLock

(***************************************************************************)
(* AnyStack.                                                               *)
(***************************************************************************)
\* The pop that reads back what the push op wrote.
PopOf(op) ==
  CASE op = "pushByte"      -> "popByte"
    [] op = "pushInt16"     -> "popInt16"
    [] op = "pushInt32"     -> "popInt32"
    [] op = "pushString"    -> "popString"
    [] op = "pushByteArray" -> "popByteArray"
    [] OTHER                -> "none"

\* C29: push and pop are inverse: when pushX(v) succeeded and popX() is the
\* next call, popX() returns v and the cursor is again what it was before
\* the push.
C29_PushPopInverse ==
  ( /\ stack_pc \in { "open", "aborted" }
    /\ stackLast.op = PopOf(stackPrev.op)
    /\ stackPrev.ret.int # -1 )
  => /\ ~stackLast.threw
     /\ stackLast.ret = stackPrev.arg
     /\ stack.cursor = stackPrev.before.cursor

\* C30: after any sequence of calls on a stack of length L the cursor is
\* within 0..L, and a push that returned -1 left the cursor and the bytes
\* as they were.
C30_CursorInRange ==
  stack_pc \in { "open", "aborted" } =>
    /\ stack.cursor >= 0
    /\ stack.cursor <= Len(stack.bytes)
    /\ (PopOf(stackLast.op) # "none" /\ stackLast.ret.int = -1)
         => stack = stackLast.before

====
